---- MODULE Spec2Model ----
(***************************************************************************)
(* Batch EML extractor. Spec is the command line program (src/main.py):     *)
(* main, EMLBatchProcessor.process_all and extract_single_email as a state *)
(* machine. GuiSpec is the window of src/gui.py with its worker threads.   *)
(* PureSpec applies the two name sanitisers to arbitrary strings.          *)
(*                                                                         *)
(* Strings whose characters the code inspects (file names, dispositions,   *)
(* header lines) are sequences of one-character strings; strings the code  *)
(* only compares for equality (content types, header keys) are strings.    *)
(***************************************************************************)
EXTENDS Integers, Sequences, FiniteSets, TLC

VARIABLES
    argv,           \* main: sys.argv
    input_folder_exists, \* process_all: self.input_folder.exists()
    exit_code,      \* exit status of the process (None while it runs)
    summary,        \* what print_summary printed (None before)
    eml_files,      \* process_all: list(input_folder.glob("*.eml")), each with its parsed content
    fs_dirs,        \* names of the directories that exist directly under output_base
    pc,             \* position of the (single) thread of control
    idx,            \* process_all: 1-based loop index
    stats,          \* self.stats
    output_folder,  \* process_all: the resolved directory name ("" is output_base itself)
    runs,           \* per message processed so far: the directory resolved and whether it was created
    headers,        \* extract_single_email: the headers dict, in insertion order
    walk_i,         \* extract_single_email: position in message.walk()
    plain_body,     \* extract_single_email: None or decoded text
    html_body,      \* extract_single_email: None or decoded text
    body_src,       \* walk position each body was taken from (0: none)
    attachments,    \* extract_single_email: list of {"filename", "content"}
    att_i,          \* extract_single_email: position in the attachment loop
    files,          \* files of the message directory being written: name -> content
    att_dir,        \* whether attachments/ exists in the message directory
    att_files,      \* files of attachments/: final name -> [content, att]
    att_log,        \* per attachment handled so far: path chosen, outcome, what existed before
    info            \* value returned by the last extract_single_email (None before / on exception)

VARIABLES
    is_processing,  \* gui: self.is_processing
    start_btn,      \* gui: state of the Start button
    stop_btn,       \* gui: state of the Stop button
    progress_queue, \* gui: self.progress_queue, the message types in order
    workers         \* gui: the threads started by start_extraction, in order

VARIABLES
    given,          \* PureSpec: the string handed to a sanitiser
    sanitized       \* PureSpec: which sanitiser ran, its result once and twice

cli_vars == << argv, input_folder_exists, exit_code, summary >>
gui_vars == << is_processing, start_btn, stop_btn, progress_queue, workers >>
pure_vars == << given, sanitized >>

vars == << cli_vars, eml_files, fs_dirs, pc, idx, stats, output_folder, runs, headers,
           walk_i, plain_body, html_body, body_src, attachments, att_i, files, att_dir,
           att_files, att_log, info, gui_vars, pure_vars >>

\* Optional values: None is the empty sequence, a value x is << x >>
None == << >>
Some(x) == << x >>

-----------------------------------------------------------------------------
(* Bounds of the model *)

MaxLen == 3        \* longest attachment file name drawn from the full alphabet
MaxParts == 2      \* most sub-parts directly under the root of a multipart message
MaxAtt == 3        \* most attachments whose names are drawn from AttNames
MaxFiles == 3      \* most .eml files in the input folder
MaxStarts == 2     \* most presses of Start that pass its validation

-----------------------------------------------------------------------------
(* Python str operations *)

Digit == <<"0", "1", "2", "3", "4", "5", "6", "7", "8", "9">>

\* str(counter) in the f-strings of the two collision loops
RECURSIVE Str(_)
Str(n) == IF n < 10 THEN << Digit[n + 1] >>
          ELSE Str(n \div 10) \o << Digit[(n % 10) + 1] >>

\* s.replace(c, r) for a one-character c
Replace(s, c, r) == [i \in 1..Len(s) |-> IF s[i] = c THEN r ELSE s[i]]

\* for char in invalid_chars: name = name.replace(char, "_")
RECURSIVE ReplaceEach(_, _, _)
ReplaceEach(s, chars, r) ==
    IF chars = << >> THEN s
    ELSE ReplaceEach(Replace(s, Head(chars), r), Tail(chars), r)

RECURSIVE LStrip(_, _)
LStrip(s, cs) == IF s # << >> /\ Head(s) \in cs THEN LStrip(Tail(s), cs) ELSE s

RECURSIVE RStrip(_, _)
RStrip(s, cs) == IF s # << >> /\ s[Len(s)] \in cs
                 THEN RStrip(SubSeq(s, 1, Len(s) - 1), cs) ELSE s

\* s.strip(cs)
Strip(s, cs) == RStrip(LStrip(s, cs), cs)

LowerChar(c) == CASE c = "E" -> "e" [] c = "M" -> "m" [] c = "L" -> "l"
                  [] c = "X" -> "x" [] c = "A" -> "a" [] OTHER -> c

\* s.lower()
Lower(s) == [i \in 1..Len(s) |-> LowerChar(s[i])]

\* s.endswith(suf)
EndsWith(s, suf) == /\ Len(s) >= Len(suf)
                    /\ SubSeq(s, Len(s) - Len(suf) + 1, Len(s)) = suf

\* sub in s
RECURSIVE StrIn(_, _)
StrIn(sub, s) ==
    IF Len(s) < Len(sub) THEN FALSE
    ELSE IF SubSeq(s, 1, Len(sub)) = sub THEN TRUE
    ELSE StrIn(sub, Tail(s))

\* s.rfind(c): 1-based position of the last c, 0 when there is none
RECURSIVE RFind(_, _)
RFind(s, c) == IF s = << >> THEN 0
               ELSE IF s[Len(s)] = c THEN Len(s)
               ELSE RFind(SubSeq(s, 1, Len(s) - 1), c)

DotEml == << ".", "e", "m", "l" >>
ATTACHMENT == << "a", "t", "t", "a", "c", "h", "m", "e", "n", "t" >>
UNNAMED == << "u", "n", "n", "a", "m", "e", "d", "_", "a", "t", "t", "a", "c", "h", "m", "e", "n", "t" >>
NA == << "N", "/", "A" >>

-----------------------------------------------------------------------------
(* Name sanitisation *)

FolderInvalidChars == << "<", ">", ":", "\"", "/", "\\", "|", "?", "*" >>

\* mutant: the suffix is matched with its case
sanitize_folder_name_case_sensitive(filename) ==
    LET name == IF EndsWith(filename, DotEml)
                THEN SubSeq(filename, 1, Len(filename) - 4)
                ELSE filename
    IN  Strip(ReplaceEach(name, FolderInvalidChars, "_"), {".", " "})

sanitize_folder_name(filename) ==
    LET name == IF EndsWith(Lower(filename), DotEml)
                THEN SubSeq(filename, 1, Len(filename) - 4)
                ELSE filename
    IN  Strip(ReplaceEach(name, FolderInvalidChars, "_"), {".", " "})

AttachmentInvalidChars == << ":", "*", "?", "\"", "<", ">", "|" >>

\* mutant: only the backslash is replaced, '/' is kept
sanitize_attachment_filename_keeps_slash(filename) ==
    IF filename = << >> THEN UNNAMED
    ELSE LET seps == Replace(filename, "\\", "_")
             safe_name == Strip(ReplaceEach(seps, AttachmentInvalidChars, "_"), {".", " "})
         IN  IF safe_name = << >> THEN UNNAMED ELSE safe_name

\* mutant: no default when nothing is left of the name
sanitize_attachment_filename_no_default(filename) ==
    IF filename = << >> THEN UNNAMED
    ELSE LET seps == Replace(Replace(filename, "\\", "_"), "/", "_")
         IN  Strip(ReplaceEach(seps, AttachmentInvalidChars, "_"), {".", " "})

sanitize_attachment_filename(filename) ==
    IF filename = << >> THEN UNNAMED
    ELSE LET seps == Replace(Replace(filename, "\\", "_"), "/", "_")
             safe_name == Strip(ReplaceEach(seps, AttachmentInvalidChars, "_"), {".", " "})
         IN  IF safe_name = << >> THEN UNNAMED ELSE safe_name

\* os.path.splitext (genericpath._splitext with sep "/"): the extension starts at
\* the last dot that follows the last separator, leading dots of the name skipped
RECURSIVE SplitAt(_, _, _)
SplitAt(p, filenameIndex, dotIndex) ==
    IF filenameIndex >= dotIndex THEN << p, << >> >>
    ELSE IF p[filenameIndex] # "."
         THEN << SubSeq(p, 1, dotIndex - 1), SubSeq(p, dotIndex, Len(p)) >>
         ELSE SplitAt(p, filenameIndex + 1, dotIndex)

splitext(p) ==
    LET sepIndex == RFind(p, "/")
        dotIndex == RFind(p, ".")
    IN  IF dotIndex > sepIndex THEN SplitAt(p, sepIndex + 1, dotIndex)
        ELSE << p, << >> >>

-----------------------------------------------------------------------------
(* Parsed messages: what BytesParser(policy=policy.default).parse returns *)

HeaderKeys == << "From", "To", "Subject", "Date", "Cc", "Message-ID" >>

KeyChars(k) ==
    CASE k = "From"       -> << "F", "r", "o", "m" >>
      [] k = "To"         -> << "T", "o" >>
      [] k = "Subject"    -> << "S", "u", "b", "j", "e", "c", "t" >>
      [] k = "Date"       -> << "D", "a", "t", "e" >>
      [] k = "Cc"         -> << "C", "c" >>
      [] k = "Message-ID" -> << "M", "e", "s", "s", "a", "g", "e", "-", "I", "D" >>

Range(s) == {s[i] : i \in 1..Len(s)}

SeqsUpTo(S, n) == UNION {[1..k -> S] : k \in 0..n}

\* A node of the MIME tree. filename is what get_filename() returns (<< >> stands
\* for None and for ""), content the decoded content of a leaf, multi is
\* is_multipart() and kids the sub-parts; charset is the charset parameter of
\* its Content-Type.
Node(ctype, disp, filename, content, multi, kids) ==
    [ctype |-> ctype, disp |-> disp, filename |-> filename, content |-> content,
     multi |-> multi, kids |-> kids, charset |-> "utf-8"]

\* the same node declared with another charset
WithCharset(node, charset) == [node EXCEPT !.charset = charset]

\* the charsets Python has a codec for
KnownCharsets == {"utf-8"}

\* message.walk(): the node itself, then its sub-parts depth-first in document order
RECURSIVE walk(_)
RECURSIVE WalkKids(_)
WalkKids(kids) == IF kids = << >> THEN << >>
                  ELSE walk(Head(kids)) \o WalkKids(Tail(kids))
walk(node) == << node >> \o (IF node.multi THEN WalkKids(node.kids) ELSE << >>)

\* part.get_content() of a text part
get_content(part) == part.content

\* part.get_content() of a text part raises LookupError when the declared
\* charset has no codec (bytes that are invalid in the charset are replaced,
\* and get_payload(decode=True) returns malformed base64 as it is: no error)
get_content_raises(part) == part.charset \notin KnownCharsets

\* part.get_payload(decode=True): None for a multipart (message/rfc822 included)
get_payload(part) == IF part.multi THEN None ELSE Some(part.content)

\* message.get(key, default)
get(hdr, key, default) == IF key \in DOMAIN hdr THEN hdr[key] ELSE default

-----------------------------------------------------------------------------
(* The inputs the model draws from *)

INLINE == << "i", "n", "l", "i", "n", "e" >>
CAPITAL == << "A", "t", "t", "a", "c", "h", "m", "e", "n", "t" >>
INLINE_NAMED == INLINE \o << ";", " ", "f", "i", "l", "e", "n", "a", "m", "e", "=" >> \o ATTACHMENT

CTypes == {"text/plain", "text/html", "application/pdf"}
Disps == {<< >>, INLINE, ATTACHMENT, CAPITAL, INLINE_NAMED}

\* The decoded content of the part at position i of its parent
Content(i) == << "c", Digit[i + 1] >>

AllHeaders == [k \in Range(HeaderKeys) |-> << "v" >>]

\* Sub-parts of a multipart message: a leaf, an empty text/plain leaf, or a
\* text leaf inside a container (multipart/alternative, or a message/rfc822
\* that is itself sent as a named attachment)
LeafItems ==
    {it \in [ctype : CTypes, disp : Disps, filename : {<< >>, << "a" >>},
             empty : {FALSE}, wrap : {"none"}, charset : {"utf-8"}] :
        /\ it.disp \in {CAPITAL, INLINE_NAMED} => it.filename # << >>
        /\ it.ctype = "application/pdf" =>
               /\ it.disp \in {<< >>, INLINE, ATTACHMENT}
               /\ it.disp = << >> => it.filename = << >>
               /\ it.disp = INLINE => it.filename # << >>}

SpecialItems ==
    [ctype : {"text/plain"}, disp : {<< >>}, filename : {<< >>},
     empty : {TRUE}, wrap : {"none"}, charset : {"utf-8"}]
    \cup [ctype : {"text/plain", "text/html"}, disp : {<< >>}, filename : {<< >>},
          empty : {FALSE}, wrap : {"multipart/alternative", "message/rfc822"},
          charset : {"utf-8"}]

\* text parts declared with a charset that has no codec: a body candidate,
\* and one sent as a named attachment
UndecodableItems ==
    [ctype : {"text/plain"}, disp : {<< >>}, filename : {<< >>},
     empty : {FALSE}, wrap : {"none"}, charset : {"x-nope"}]
    \cup [ctype : {"text/plain"}, disp : {ATTACHMENT}, filename : {<< "a" >>},
          empty : {FALSE}, wrap : {"none"}, charset : {"x-nope"}]

Items == LeafItems \cup SpecialItems \cup UndecodableItems

MkNode(it, i) ==
    LET leaf == WithCharset(Node(it.ctype, it.disp, it.filename,
                                 IF it.empty THEN << >> ELSE Content(i), FALSE, << >>),
                            it.charset)
    IN  IF it.wrap = "none" THEN leaf
        ELSE IF it.wrap = "message/rfc822"
             THEN Node(it.wrap, ATTACHMENT, << "f" >>, << >>, TRUE, << leaf >>)
             ELSE Node(it.wrap, << >>, << >>, << >>, TRUE, << leaf >>)

Multipart(hdr, kids) ==
    [hdr |-> hdr,
     root |-> Node("multipart/mixed", << >>, << >>, << >>, TRUE, kids)]

Attachment(name, i) == Node("application/pdf", ATTACHMENT, name, Content(i), FALSE, << >>)

\* multipart messages of up to MaxParts sub-parts
WalkMessages ==
    {Multipart(AllHeaders, [i \in 1..Len(its) |-> MkNode(its[i], i)]) :
        its \in SeqsUpTo(Items, MaxParts)}

\* non-multipart messages
SingleMessages ==
    {[hdr |-> AllHeaders, root |-> Node(c, d, f, t, FALSE, << >>)] :
        c \in CTypes, d \in {<< >>, INLINE, ATTACHMENT}, f \in {<< >>, << "a" >>},
        t \in {<< >>, Content(1)}}
    \cup {[hdr |-> AllHeaders,
           root |-> WithCharset(Node(c, << >>, << >>, Content(1), FALSE, << >>), "x-nope")] :
             c \in CTypes}

\* Values of the Subject header. policy.default decodes RFC 2047 encoded
\* words, so a value can hold a line break: "=?utf-8?q?v=0Aw?=" is "v\nw".
SubjectValues == { << "v" >>, << "v", "\n", "w" >> }

\* messages with any subset of the recognised headers
HeaderMessages ==
    {[hdr |-> [k \in ks |-> IF k = "Subject" THEN sv ELSE << "v" >>],
      root |-> Node("text/plain", << >>, << >>, Content(1), FALSE, << >>)] :
        ks \in SUBSET Range(HeaderKeys), sv \in SubjectValues}

\* attachment names that collide with each other and with each other's suffixed names
AttNames == { << "a", ".", "p" >>, << "a", "_", "1", ".", "p" >>, << "a", "/", "b" >>,
              << "a", "_", "b" >>, << ".", "." >> }

AttMessages ==
    {Multipart(AllHeaders, [i \in 1..Len(ns) |-> Attachment(ns[i], i)]) :
        ns \in SeqsUpTo(AttNames, MaxAtt)}

\* every attachment name of up to MaxLen characters over Alphabet
Alphabet == {"a", ".", "/", "\\", " ", ":"}

NameMessages ==
    {Multipart(AllHeaders, << Attachment(n, 1) >>) :
        n \in SeqsUpTo(Alphabet, MaxLen) \ {<< >>}}

Messages == WalkMessages \cup SingleMessages \cup HeaderMessages
            \cup AttMessages \cup NameMessages

X == << "x" >>
X1 == << "x", "_", "1" >>

\* source file names, all matched by glob("*.eml"); the first two sanitise to
\* the same folder name, the third to the first suffixed name, the fourth to ""
EmlNames == { X \o DotEml, X \o << "." >> \o DotEml, X1 \o DotEml, DotEml }

TrivialMessage ==
    [hdr |-> AllHeaders, root |-> Node("text/plain", << >>, << >>, Content(1), FALSE, << >>)]

\* glob results: any order of distinct names
Batches ==
    {fs \in SeqsUpTo([name : EmlNames, msg : {TrivialMessage}], MaxFiles) :
        \A i, j \in 1..Len(fs) : i # j => fs[i].name # fs[j].name}

\* what the output base holds before the run
PreDirs == { {}, {X}, {X, X1} }

-----------------------------------------------------------------------------
(* Initial state: the input folder has been listed, nothing is extracted yet *)

\* sys.argv: the script alone, with the input folder, with both folders
Argvs == { << "main.py" >>, << "main.py", "in" >>, << "main.py", "in", "out" >> }

\* command lines with a missing argument, a missing, an empty or a filled input folder
CliInputs ==
    {[argv |-> a, exists |-> e, dirs |-> {},
      files |-> IF e /\ Len(a) >= 2 THEN f ELSE << >>] :
        a \in Argvs, e \in BOOLEAN,
        f \in {<< >>, << [name |-> X \o DotEml, msg |-> TrivialMessage] >>}}

Inputs ==
    {[argv |-> << "main.py", "in" >>, exists |-> TRUE, dirs |-> {},
      files |-> << [name |-> X \o DotEml, msg |-> m] >>] : m \in Messages}
    \cup {[argv |-> << "main.py", "in" >>, exists |-> TRUE, dirs |-> d, files |-> b] :
             b \in Batches, d \in PreDirs}
    \cup CliInputs

\* the window is not part of the command line program
GuiOff ==
    /\ is_processing = FALSE
    /\ start_btn = "normal"
    /\ stop_btn = "disabled"
    /\ progress_queue = << >>
    /\ workers = << >>

PureOff ==
    /\ given = << >>
    /\ sanitized = None

Init ==
    /\ \E inp \in Inputs :
          /\ argv = inp.argv
          /\ input_folder_exists = inp.exists
          /\ eml_files = inp.files
          /\ fs_dirs = inp.dirs
    /\ exit_code = None
    /\ summary = None
    /\ GuiOff
    /\ PureOff
    /\ pc = "main"
    /\ idx = 1
    /\ stats = [total |-> 0, successful |-> 0, failed |-> 0]
    /\ output_folder = << >>
    /\ runs = << >>
    /\ headers = << >>
    /\ walk_i = 1
    /\ plain_body = None
    /\ html_body = None
    /\ body_src = [plain |-> 0, html |-> 0]
    /\ attachments = << >>
    /\ att_i = 1
    /\ files = << >>
    /\ att_dir = FALSE
    /\ att_files = << >>
    /\ att_log = << >>
    /\ info = None

batch_vars == << eml_files, fs_dirs, idx, stats, output_folder, runs >>
local_vars == << headers, walk_i, plain_body, html_body, body_src, attachments, att_i >>
dir_vars == << files, att_dir, att_files, att_log >>
other_vars == << gui_vars, pure_vars >>

message == eml_files[idx].msg

-----------------------------------------------------------------------------
(* process_all *)

\* mutant: only the listing of the output base is consulted, the empty name is
\* taken for a free one
exists_in_listing(folder_name, dirs) == folder_name \in dirs

\* output_folder.exists() for output_base / folder_name: an empty folder_name
\* is output_base itself, which line 183 has created
exists(folder_name, dirs) == folder_name = << >> \/ folder_name \in dirs

\* mutant: the counter is appended to the previous candidate
RECURSIVE folder_loop_chained(_, _, _, _)
folder_loop_chained(original_name, folder_name, counter, dirs) ==
    IF exists(folder_name, dirs)
    THEN folder_loop_chained(original_name, folder_name \o << "_" >> \o Str(counter),
                             counter + 1, dirs)
    ELSE folder_name

\* mutant: an if instead of the while, the suffixed name is not checked again
folder_loop_once(original_name, folder_name, counter, dirs) ==
    IF exists(folder_name, dirs)
    THEN original_name \o << "_" >> \o Str(counter)
    ELSE folder_name

\* lines 196-201: while output_folder.exists(): ...
RECURSIVE folder_loop(_, _, _, _)
folder_loop(original_name, folder_name, counter, dirs) ==
    IF exists(folder_name, dirs)
    THEN folder_loop(original_name, original_name \o << "_" >> \o Str(counter),
                     counter + 1, dirs)
    ELSE folder_name

\* lines 192-201
resolve_folder(filename, dirs) ==
    LET folder_name == sanitize_folder_name(filename)
    IN  folder_loop(folder_name, folder_name, 1, dirs)

\* lines 245-276: without an argument the usage is printed and the process
\* exits with 1; otherwise the processor is built and process_all called
Main ==
    /\ pc = "main"
    /\ IF Len(argv) < 2
       THEN pc' = "exit" /\ exit_code' = Some(1)
       ELSE pc' = "begin" /\ exit_code' = exit_code
    /\ UNCHANGED << argv, input_folder_exists, summary >>
    /\ UNCHANGED << batch_vars, local_vars, dir_vars, info, other_vars >>

\* lines 160-183: a missing input folder or no .eml file: return without a summary
Begin ==
    /\ pc = "begin"
    /\ IF ~input_folder_exists \/ eml_files = << >>
       THEN pc' = "done" /\ stats' = stats
       ELSE pc' = "resolve" /\ stats' = [stats EXCEPT !.total = Len(eml_files)]
    /\ UNCHANGED << eml_files, fs_dirs, idx, output_folder, runs, info >>
    /\ UNCHANGED << local_vars, dir_vars >>
    /\ UNCHANGED << cli_vars, other_vars >>

\* mutant: no except around the body of the loop, the exception leaves process_all
Failed_aborts ==
    /\ stats' = [stats EXCEPT !.failed = @ + 1]
    /\ idx' = idx
    /\ info' = None
    /\ pc' = "done"

\* lines 217-219: except Exception: failed += 1, on to the next file
Failed ==
    /\ stats' = [stats EXCEPT !.failed = @ + 1]
    /\ idx' = idx + 1
    /\ info' = None
    /\ pc' = "resolve"

\* lines 186-201: the next file's output folder is resolved; exists() may
\* raise (no permission to search the output base), inside the try
Resolve ==
    /\ pc = "resolve"
    /\ idx <= Len(eml_files)
    /\ \/ /\ output_folder' = resolve_folder(eml_files[idx].name, fs_dirs)
          /\ runs' = Append(runs, [dir |-> output_folder', created |-> FALSE])
          /\ info' = None
          /\ pc' = "load"
          /\ UNCHANGED << idx, stats >>
       \/ /\ Failed
          /\ runs' = Append(runs, [dir |-> << >>, created |-> FALSE])
          /\ UNCHANGED output_folder
    /\ UNCHANGED << eml_files, fs_dirs >>
    /\ UNCHANGED << local_vars, dir_vars >>
    /\ UNCHANGED << cli_vars, other_vars >>

\* lines 224, 226-235: the loop is over, print_summary
Summary ==
    /\ pc = "resolve"
    /\ idx > Len(eml_files)
    /\ summary' = Some(stats)
    /\ pc' = "done"
    /\ UNCHANGED << argv, input_folder_exists, exit_code >>
    /\ UNCHANGED << batch_vars, local_vars, dir_vars, info, other_vars >>

\* line 276 and the end of the script: process_all has returned, main returns
\* and the interpreter exits with 0
Exit ==
    /\ pc = "done"
    /\ exit_code' = Some(0)
    /\ pc' = "exit"
    /\ UNCHANGED << argv, input_folder_exists, summary >>
    /\ UNCHANGED << batch_vars, local_vars, dir_vars, info, other_vars >>

-----------------------------------------------------------------------------
(* extract_single_email *)

\* lines 61-62: open and parse the source file; open may raise
Load ==
    /\ pc = "load"
    /\ \/ /\ pc' = "mkdir"
          /\ UNCHANGED << idx, stats, info >>
       \/ Failed
    /\ UNCHANGED << eml_files, fs_dirs, output_folder, runs >>
    /\ UNCHANGED << local_vars, dir_vars >>
    /\ UNCHANGED << cli_vars, other_vars >>

\* lines 65-66: output_path.mkdir(parents=True, exist_ok=True); a directory
\* that did not exist starts empty
Mkdir ==
    /\ pc = "mkdir"
    /\ \/ /\ fs_dirs' = fs_dirs \cup ({output_folder} \ {<< >>})
          /\ runs' = [runs EXCEPT ![Len(runs)].created = TRUE]
          /\ IF exists(output_folder, fs_dirs)
             THEN UNCHANGED dir_vars
             ELSE /\ files' = << >>
                  /\ att_dir' = FALSE
                  /\ att_files' = << >>
                  /\ att_log' = << >>
          /\ pc' = "headers"
          /\ UNCHANGED << idx, stats, info >>
       \/ /\ Failed
          /\ UNCHANGED << fs_dirs, runs, dir_vars >>
    /\ UNCHANGED << eml_files, output_folder >>
    /\ UNCHANGED local_vars
    /\ UNCHANGED << cli_vars, other_vars >>

\* lines 69-76: the headers dict, in insertion order
extract_headers(hdr) ==
    [i \in 1..Len(HeaderKeys) |-> << HeaderKeys[i], get(hdr, HeaderKeys[i], NA) >>]

\* lines 80-81: f"{key}: {value}\n" for each item
RECURSIVE format_headers(_)
format_headers(items) ==
    IF items = << >> THEN << >>
    ELSE KeyChars(Head(items)[1]) \o << ":", " " >> \o Head(items)[2] \o << "\n" >>
         \o format_headers(Tail(items))

\* lines 69-86: build and save the headers, then initialise the walk's locals
Headers ==
    /\ pc = "headers"
    /\ headers' = extract_headers(message.hdr)
    /\ walk_i' = 1
    /\ plain_body' = None
    /\ html_body' = None
    /\ body_src' = [plain |-> 0, html |-> 0]
    /\ attachments' = << >>
    /\ att_i' = 1
    /\ \/ /\ files' = ("headers.txt" :> format_headers(headers')) @@ files
          /\ pc' = "walk"
          /\ UNCHANGED << idx, stats, info >>
       \/ /\ Failed
          /\ UNCHANGED files
    /\ UNCHANGED << eml_files, fs_dirs, output_folder, runs >>
    /\ UNCHANGED << att_dir, att_files, att_log >>
    /\ UNCHANGED << cli_vars, other_vars >>

\* mutant: the disposition is compared with "attachment" instead of searched
is_attachment_equal(part) == part.disp = ATTACHMENT

\* line 94
is_attachment(part) == StrIn(ATTACHMENT, part.disp)

\* mutant: a later part of the same content type replaces the body
visit_last_wins(part, i, loc) ==
    IF is_attachment(part)
    THEN IF part.filename # << >>
         THEN [loc EXCEPT !.attachments =
                  Append(@, [filename |-> part.filename,
                             content |-> get_payload(part), part |-> i])]
         ELSE loc
    ELSE IF part.ctype = "text/plain"
         THEN [loc EXCEPT !.plain_body = Some(get_content(part)), !.body_src.plain = i]
    ELSE IF part.ctype = "text/html"
         THEN [loc EXCEPT !.html_body = Some(get_content(part)), !.body_src.html = i]
    ELSE loc

\* mutant: an attachment part is recorded whether or not it has a filename
visit_keeps_unnamed(part, i, loc) ==
    IF is_attachment(part)
    THEN [loc EXCEPT !.attachments =
             Append(@, [filename |-> part.filename,
                        content |-> get_payload(part), part |-> i])]
    ELSE IF part.ctype = "text/plain" /\ loc.plain_body = None
         THEN [loc EXCEPT !.plain_body = Some(get_content(part)), !.body_src.plain = i]
    ELSE IF part.ctype = "text/html" /\ loc.html_body = None
         THEN [loc EXCEPT !.html_body = Some(get_content(part)), !.body_src.html = i]
    ELSE loc

\* lines 90-107: one iteration of the walk; loc holds the locals
visit(part, i, loc) ==
    IF is_attachment(part)
    THEN IF part.filename # << >>
         THEN [loc EXCEPT !.attachments =
                  Append(@, [filename |-> part.filename,
                             content |-> get_payload(part), part |-> i])]
         ELSE loc
    ELSE IF part.ctype = "text/plain" /\ loc.plain_body = None
         THEN [loc EXCEPT !.plain_body = Some(get_content(part)), !.body_src.plain = i]
    ELSE IF part.ctype = "text/html" /\ loc.html_body = None
         THEN [loc EXCEPT !.html_body = Some(get_content(part)), !.body_src.html = i]
    ELSE loc

\* lines 104-107: the iteration calls part.get_content() and it raises
visit_raises(part, loc) ==
    /\ ~is_attachment(part)
    /\ \/ part.ctype = "text/plain" /\ loc.plain_body = None
       \/ part.ctype = "text/html" /\ loc.html_body = None
    /\ get_content_raises(part)

\* lines 110-113: message.get_content() is called and raises
visit_single_raises(root) ==
    /\ root.ctype \in {"text/plain", "text/html"}
    /\ get_content_raises(root)

\* lines 109-113: a message that is not multipart
visit_single(root, loc) ==
    IF root.ctype = "text/plain"
    THEN [loc EXCEPT !.plain_body = Some(get_content(root)), !.body_src.plain = 1]
    ELSE IF root.ctype = "text/html"
         THEN [loc EXCEPT !.html_body = Some(get_content(root)), !.body_src.html = 1]
         ELSE loc

locals == [plain_body |-> plain_body, html_body |-> html_body,
           attachments |-> attachments, body_src |-> body_src]

SetLocals(loc) ==
    /\ plain_body' = loc.plain_body
    /\ html_body' = loc.html_body
    /\ attachments' = loc.attachments
    /\ body_src' = loc.body_src

\* lines 88-107: the walk visits its next part; get_content() is not inside
\* a try, so its exception ends the call
WalkPart ==
    /\ pc = "walk"
    /\ message.root.multi
    /\ LET parts == walk(message.root)
       IN  IF visit_raises(parts[walk_i], locals)
           THEN /\ Failed
                /\ UNCHANGED << walk_i, plain_body, html_body, body_src, attachments >>
           ELSE /\ SetLocals(visit(parts[walk_i], walk_i, locals))
                /\ IF walk_i < Len(parts)
                   THEN walk_i' = walk_i + 1 /\ pc' = pc
                   ELSE walk_i' = walk_i /\ pc' = "save_plain"
                /\ UNCHANGED << idx, stats, info >>
    /\ UNCHANGED << eml_files, fs_dirs, output_folder, runs >>
    /\ UNCHANGED << headers, att_i, dir_vars >>
    /\ UNCHANGED << cli_vars, other_vars >>

\* lines 108-113
WalkSingle ==
    /\ pc = "walk"
    /\ ~message.root.multi
    /\ IF visit_single_raises(message.root)
       THEN /\ Failed
            /\ UNCHANGED << plain_body, html_body, body_src, attachments >>
       ELSE /\ SetLocals(visit_single(message.root, locals))
            /\ pc' = "save_plain"
            /\ UNCHANGED << idx, stats, info >>
    /\ UNCHANGED << eml_files, fs_dirs, output_folder, runs >>
    /\ UNCHANGED << headers, walk_i, att_i, dir_vars >>
    /\ UNCHANGED << cli_vars, other_vars >>

\* lines 116-118: if plain_body: write body_plain.txt
SavePlain ==
    /\ pc = "save_plain"
    /\ IF plain_body # None /\ plain_body[1] # << >>
       THEN \/ /\ files' = ("body_plain.txt" :> plain_body[1]) @@ files
               /\ pc' = "save_html"
               /\ UNCHANGED << idx, stats, info >>
            \/ /\ Failed
               /\ UNCHANGED files
       ELSE /\ pc' = "save_html"
            /\ UNCHANGED << files, idx, stats, info >>
    /\ UNCHANGED << eml_files, fs_dirs, output_folder, runs >>
    /\ UNCHANGED << local_vars, att_dir, att_files, att_log >>
    /\ UNCHANGED << cli_vars, other_vars >>

\* lines 120-122: if html_body: write body_html.html
SaveHtml ==
    /\ pc = "save_html"
    /\ IF html_body # None /\ html_body[1] # << >>
       THEN \/ /\ files' = ("body_html.html" :> html_body[1]) @@ files
               /\ pc' = "att_mkdir"
               /\ UNCHANGED << idx, stats, info >>
            \/ /\ Failed
               /\ UNCHANGED files
       ELSE /\ pc' = "att_mkdir"
            /\ UNCHANGED << files, idx, stats, info >>
    /\ UNCHANGED << eml_files, fs_dirs, output_folder, runs >>
    /\ UNCHANGED << local_vars, att_dir, att_files, att_log >>
    /\ UNCHANGED << cli_vars, other_vars >>

\* lines 125-127: if attachments: attachments_dir.mkdir(exist_ok=True)
AttMkdir ==
    /\ pc = "att_mkdir"
    /\ IF attachments # << >>
       THEN \/ /\ att_dir' = TRUE
               /\ pc' = "att"
               /\ UNCHANGED << idx, stats, info >>
            \/ /\ Failed
               /\ UNCHANGED att_dir
       ELSE /\ pc' = "return"
            /\ UNCHANGED << att_dir, idx, stats, info >>
    /\ UNCHANGED << eml_files, fs_dirs, output_folder, runs >>
    /\ UNCHANGED << local_vars, files, att_files, att_log >>
    /\ UNCHANGED << cli_vars, other_vars >>

\* mutant: an if instead of the while, the suffixed name is not checked again
attachment_loop_once(original_safe_name, filepath, counter, existing) ==
    IF filepath \in existing
    THEN LET name == splitext(original_safe_name)[1]
             ext == splitext(original_safe_name)[2]
         IN  name \o << "_" >> \o Str(counter) \o ext
    ELSE filepath

\* mutant: the counter is appended after the extension
RECURSIVE attachment_loop_after_ext(_, _, _, _)
attachment_loop_after_ext(original_safe_name, filepath, counter, existing) ==
    IF filepath \in existing
    THEN attachment_loop_after_ext(original_safe_name,
                                   original_safe_name \o << "_" >> \o Str(counter),
                                   counter + 1, existing)
    ELSE filepath

\* lines 135-140: while filepath.exists(): ...
RECURSIVE attachment_loop(_, _, _, _)
attachment_loop(original_safe_name, filepath, counter, existing) ==
    IF filepath \in existing
    THEN LET name == splitext(original_safe_name)[1]
             ext == splitext(original_safe_name)[2]
         IN  attachment_loop(original_safe_name,
                             name \o << "_" >> \o Str(counter) \o ext,
                             counter + 1, existing)
    ELSE filepath

\* lines 131-140: the path of an attachment, relative to attachments/
attachment_path(filename, existing) ==
    LET safe_filename == sanitize_attachment_filename(filename)
    IN  attachment_loop(safe_filename, safe_filename, 1, existing)

\* mutant: no try/except around open() and write(): a failure ends the call
SaveAttachment_uncaught ==
    /\ pc = "att"
    /\ LET att == attachments[att_i]
           filepath == attachment_path(att.filename, DOMAIN att_files)
           entry(o) == [path |-> filepath, existed |-> filepath \in DOMAIN att_files,
                        outcome |-> o, att |-> att_i]
           next == /\ IF att_i < Len(attachments)
                      THEN att_i' = att_i + 1 /\ pc' = pc
                      ELSE att_i' = att_i /\ pc' = "return"
                   /\ UNCHANGED << idx, stats, info >>
       IN  \/ /\ att.content # None
              /\ att_files' = (filepath :> [content |-> att.content[1], att |-> att_i])
                                  @@ att_files
              /\ att_log' = Append(att_log, entry("written"))
              /\ next
           \/ /\ att_files' = (filepath :> [content |-> << >>, att |-> att_i]) @@ att_files
              /\ att_log' = Append(att_log, entry("write_error"))
              /\ Failed
              /\ UNCHANGED att_i
           \/ /\ att_log' = Append(att_log, entry("open_error"))
              /\ Failed
              /\ UNCHANGED << att_i, att_files >>
           \/ /\ Failed
              /\ UNCHANGED << att_i, att_files, att_log >>
    /\ UNCHANGED << eml_files, fs_dirs, output_folder, runs >>
    /\ UNCHANGED << headers, walk_i, plain_body, html_body, body_src, attachments >>
    /\ UNCHANGED << files, att_dir >>
    /\ UNCHANGED << cli_vars, other_vars >>

\* lines 129-149: one iteration of the attachment loop. filepath.exists() may
\* raise (a name the file system rejects), which ends the call; open() or
\* write() raising is caught and reported, write() after open() leaves the
\* file created; a None payload makes write() raise
SaveAttachment ==
    /\ pc = "att"
    /\ LET att == attachments[att_i]
           filepath == attachment_path(att.filename, DOMAIN att_files)
           entry(o) == [path |-> filepath, existed |-> filepath \in DOMAIN att_files,
                        outcome |-> o, att |-> att_i]
           next == /\ IF att_i < Len(attachments)
                      THEN att_i' = att_i + 1 /\ pc' = pc
                      ELSE att_i' = att_i /\ pc' = "return"
                   /\ UNCHANGED << idx, stats, info >>
       IN  \/ /\ att.content # None
              /\ att_files' = (filepath :> [content |-> att.content[1], att |-> att_i])
                                  @@ att_files
              /\ att_log' = Append(att_log, entry("written"))
              /\ next
           \/ /\ att_files' = (filepath :> [content |-> << >>, att |-> att_i]) @@ att_files
              /\ att_log' = Append(att_log, entry("write_error"))
              /\ next
           \/ /\ att_log' = Append(att_log, entry("open_error"))
              /\ UNCHANGED att_files
              /\ next
           \/ /\ Failed
              /\ UNCHANGED << att_i, att_files, att_log >>
    /\ UNCHANGED << eml_files, fs_dirs, output_folder, runs >>
    /\ UNCHANGED << headers, walk_i, plain_body, html_body, body_src, attachments >>
    /\ UNCHANGED << files, att_dir >>
    /\ UNCHANGED << cli_vars, other_vars >>

\* lines 151-156
result ==
    [headers |-> headers,
     has_plain |-> plain_body # None,
     has_html |-> html_body # None,
     attachment_count |-> Len(attachments)]

\* lines 151-156 and 204-215: the call returns, process_all counts a success
Return ==
    /\ pc = "return"
    /\ info' = Some(result)
    /\ stats' = [stats EXCEPT !.successful = @ + 1]
    /\ idx' = idx + 1
    /\ pc' = "resolve"
    /\ UNCHANGED << eml_files, fs_dirs, output_folder, runs >>
    /\ UNCHANGED << local_vars, dir_vars >>
    /\ UNCHANGED << cli_vars, other_vars >>

-----------------------------------------------------------------------------

Next ==
    \/ Main \/ Begin \/ Resolve \/ Summary \/ Exit
    \/ Load \/ Mkdir \/ Headers \/ WalkPart \/ WalkSingle
    \/ SavePlain \/ SaveHtml \/ AttMkdir \/ SaveAttachment \/ Return

Spec == Init /\ [][Next]_vars

-----------------------------------------------------------------------------
(* Vocabulary of the properties, stated without the operators of the model *)

\* the disposition string contains "attachment"
ContainsAttachment(d) ==
    \E k \in 1..Len(d) : k + Len(ATTACHMENT) - 1 <= Len(d)
                         /\ \A j \in 1..Len(ATTACHMENT) : d[k + j - 1] = ATTACHMENT[j]

\* the call of extract_single_email for eml_files[idx] has finished its walk
Walked == pc \in {"save_plain", "save_html", "att_mkdir", "att", "return"}

Parts == walk(message.root)

\* the parts visited so far by the walk of the current message
Visited == IF pc = "walk" THEN 1..(walk_i - 1)
           ELSE IF Walked THEN 1..Len(Parts) ELSE {}

\* the visited parts of content type ct that are not attachments
Candidates(ct) ==
    {i \in Visited : Parts[i].ctype = ct /\ ~ContainsAttachment(Parts[i].disp)}

Least(S) == CHOOSE i \in S : \A j \in S : i <= j

\* the body retained for content type ct is that of the first candidate
FirstWins(ct, body) ==
    IF Candidates(ct) = {} THEN body = None
    ELSE body = Some(Parts[Least(Candidates(ct))].content)

\* C1: in a multipart message each retained body (and each body file, once
\* written) is the content of the first non-attachment part of its content type
\* in depth-first document order, at every point of the walk and after it: a
\* later part of the same type never replaces it.
C1_FirstBodyWins ==
    (pc \in {"walk"} \/ Walked) /\ message.root.multi =>
        /\ FirstWins("text/plain", plain_body)
        /\ FirstWins("text/html", html_body)
        /\ "body_plain.txt" \in DOMAIN files =>
               files["body_plain.txt"] = Parts[Least(Candidates("text/plain"))].content
        /\ "body_html.html" \in DOMAIN files =>
               files["body_html.html"] = Parts[Least(Candidates("text/html"))].content

\* a multipart message with two non-attachment text/plain parts of different
\* content has been extracted and body_plain.txt holds the first one's content
C1_Witness ==
    /\ pc = "return"
    /\ message.root.multi
    /\ \E i, j \in Candidates("text/plain") :
          /\ i < j
          /\ Parts[i].content # Parts[j].content
          /\ "body_plain.txt" \in DOMAIN files
          /\ files["body_plain.txt"] = Parts[i].content

\* the walk positions of the parts recorded as attachments
AttParts == [k \in 1..Len(attachments) |-> attachments[k].part]

\* C2: in the walk of a multipart message a part is treated as an attachment
\* iff its disposition contains "attachment", whatever its content type: no
\* body is taken from such a part, every part in the attachment list is such a
\* part, and each visited such part that has a filename is in the list.
C2_AttachmentIffDisposition ==
    (pc \in {"walk"} \/ Walked) /\ message.root.multi =>
        /\ body_src.plain # 0 => ~ContainsAttachment(Parts[body_src.plain].disp)
        /\ body_src.html # 0 => ~ContainsAttachment(Parts[body_src.html].disp)
        /\ \A k \in 1..Len(attachments) : ContainsAttachment(Parts[AttParts[k]].disp)
        /\ \A i \in Visited :
              ContainsAttachment(Parts[i].disp) /\ Parts[i].filename # << >>
                  => i \in Range(AttParts)

\* a text/plain part sent as a named attachment came first and was recorded
\* as an attachment, the body was taken from a later text/plain part; and a
\* part whose disposition only contains the word was recorded as well
C2_Witness ==
    /\ pc = "return"
    /\ message.root.multi
    /\ \E i \in Range(AttParts) :
          /\ Parts[i].ctype = "text/plain"
          /\ i < body_src.plain
    /\ \E i \in Range(AttParts) : Parts[i].disp \notin {ATTACHMENT}

\* C3: a message that is not multipart and whose disposition contains
\* "attachment" yields no body (no body file, has_plain and has_html false),
\* and is recorded as an attachment when it declares a filename.
C3_SingleNodeClassified ==
    pc = "return" /\ ~message.root.multi /\ ContainsAttachment(message.root.disp) =>
        /\ plain_body = None /\ html_body = None
        /\ ~result.has_plain /\ ~result.has_html
        /\ "body_plain.txt" \notin DOMAIN files
        /\ "body_html.html" \notin DOMAIN files
        /\ message.root.filename # << >> => Len(attachments) = 1

\* the path, relative to attachments/, names a direct child of attachments/
DirectChild(path) ==
    /\ "/" \notin Range(path)
    /\ "\\" \notin Range(path)
    /\ path \notin {<< >>, << "." >>, << ".", "." >>}

\* C4: every path an attachment is written to (or attempted at) has a final
\* name without '/' and '\' and is a direct child of attachments/.
C4_AttachmentPathIsDirectChild ==
    /\ \A k \in 1..Len(att_log) : DirectChild(att_log[k].path)
    /\ \A n \in DOMAIN att_files : DirectChild(n)

\* attachments declared with a '/' or a '\' in the name, and one named only
\* with dots, have been written
C4_Witness ==
    /\ \E k \in 1..Len(att_log) :
          /\ att_log[k].outcome = "written"
          /\ att_log[k].path \in DOMAIN att_files
          /\ "/" \in Range(attachments[att_log[k].att].filename)
    /\ \E k \in 1..Len(att_log) :
          /\ att_log[k].outcome = "written"
          /\ Range(attachments[att_log[k].att].filename) = {"."}

-----------------------------------------------------------------------------
(* Output folder naming *)

\* the sanitised folder name of the i-th source file
Base(i) == sanitize_folder_name(eml_files[i].name)

Numbered(base, k) == base \o << "_" >> \o Str(k)

\* output_base / name exists: the empty name is output_base itself
PathExists(name) == name = << >> \/ name \in fs_dirs

\* the messages of the run whose output directory was created
CreatedRuns == {i \in 1..Len(runs) : runs[i].created}

\* the directories the output base held before the run
PreExisting == fs_dirs \ {runs[i].dir : i \in CreatedRuns}

\* dir is base if that does not exist, else base_k for the least k >= 1 that does not
SmallestFree(base, dir) ==
    IF ~PathExists(base) THEN dir = base
    ELSE \E k \in 1..(Cardinality(fs_dirs) + 1) :
            /\ dir = Numbered(base, k)
            /\ ~PathExists(dir)
            /\ \A j \in 1..(k - 1) : PathExists(Numbered(base, j))

\* the earlier source files of the run with the same sanitised folder name
SameBase == {i \in 1..(idx - 1) : Base(i) = Base(idx)}

\* C5 as stated: the folder is the sanitised base or base_k for the least free
\* k, and the second of two source files with the same base goes to base_1
\* whenever base_1 does not pre-exist.
C5_SecondGetsSuffixOne ==
    pc = "load" =>
        /\ SmallestFree(Base(idx), output_folder)
        /\ Cardinality(SameBase) = 1 /\ Numbered(Base(idx), 1) \notin PreExisting
               => output_folder = Numbered(Base(idx), 1)

\* C5, amended: the folder is the sanitised base or base_k for the least free
\* k (never a counter chained onto a previous candidate); the second of two
\* source files with the same base goes to base_1 when neither base nor base_1
\* pre-exists, the first one's directory was created and no earlier message of
\* the run was extracted to base_1.
C5_SmallestFreeCounter ==
    pc = "load" =>
        /\ SmallestFree(Base(idx), output_folder)
        /\ ( /\ Cardinality(SameBase) = 1
             /\ Base(idx) \notin PreExisting
             /\ Numbered(Base(idx), 1) \notin PreExisting
             /\ SameBase \subseteq CreatedRuns
             /\ \A i \in CreatedRuns : runs[i].dir # Numbered(Base(idx), 1) )
               => output_folder = Numbered(Base(idx), 1)

\* in an output base that was empty, the second source file of a base is
\* resolved when base and base_1 have both been created by the run: it goes
\* to base_2
C5_Witness ==
    /\ pc = "load"
    /\ PreExisting = {}
    /\ Cardinality(SameBase) = 1
    /\ {Base(idx), Numbered(Base(idx), 1)} \subseteq fs_dirs
    /\ output_folder = Numbered(Base(idx), 2)

\* C6 as stated: the resolved directory does not exist when it is chosen and
\* differs from the directory of every message processed earlier in the run.
C6_DiffersFromEveryEarlier ==
    pc = "load" =>
        /\ ~PathExists(output_folder)
        /\ \A i \in 1..(Len(runs) - 1) : runs[i].dir # output_folder

\* C6, amended: the resolved directory does not exist when it is chosen and
\* differs from the directory of every earlier message of the run whose
\* directory was created; no two messages are extracted into the same directory.
C6_DistinctOutputDirs ==
    /\ pc = "load" =>
          /\ ~PathExists(output_folder)
          /\ \A i \in CreatedRuns : runs[i].dir # output_folder
    /\ \A i, j \in CreatedRuns : i # j => runs[i].dir # runs[j].dir
    /\ \A i \in CreatedRuns : runs[i].dir \in fs_dirs

\* after a message failed, the third message of the run was resolved to a
\* directory of its own although an earlier one has the same sanitised name
C6_Witness ==
    /\ pc = "load"
    /\ idx = 3
    /\ stats.failed >= 1
    /\ CreatedRuns = {1, 2}
    /\ SameBase # {}
    /\ PreExisting # {}

-----------------------------------------------------------------------------
(* Attachment naming *)

\* the file of the k-th handled attachment was created (written or left empty)
FileCreated(k) == att_log[k].outcome \in {"written", "write_error"}

\* the names in attachments/ before the k-th attachment was handled
ExistingBefore(k) == {att_log[j].path : j \in {j \in 1..(k - 1) : FileCreated(j)}}

\* C7: within one message no two attachments are written to the same final
\* name: each file is created at a path that did not exist before, and a
\* written attachment's file still holds that attachment's bytes.
C7_NoAttachmentOverwritten ==
    /\ \A k \in 1..Len(att_log) : FileCreated(k) => ~att_log[k].existed
    /\ \A k, l \in 1..Len(att_log) :
          k < l /\ FileCreated(k) /\ FileCreated(l) => att_log[k].path # att_log[l].path
    /\ pc \in {"att", "return"} =>
          \A k \in 1..Len(att_log) :
              att_log[k].outcome = "written" =>
                  /\ att_log[k].path \in DOMAIN att_files
                  /\ att_files[att_log[k].path] =
                         [content |-> attachments[att_log[k].att].content[1],
                          att |-> att_log[k].att]

AP == << "a", ".", "p" >>
A1P == << "a", "_", "1", ".", "p" >>

\* a.p, a.p and a_1.p have been written, to three different files
C7_Witness ==
    /\ pc = "return"
    /\ Len(att_log) = 3
    /\ \A k \in 1..3 : att_log[k].outcome = "written"
    /\ [k \in 1..3 |-> attachments[k].filename] = << AP, AP, A1P >>
    /\ Cardinality(DOMAIN att_files) = 3

\* the split of a sanitised name: the extension starts at its last dot
IsSplit(name, stem, ext) ==
    /\ stem \o ext = name
    /\ IF "." \in Range(name)
       THEN ext # << >> /\ ext[1] = "." /\ "." \notin Range(Tail(ext))
       ELSE ext = << >>

\* C8: an attachment whose sanitised name is taken is written to
\* stem_k + extension for the least k >= 1 that is free, (stem, extension)
\* being the split of the sanitised name itself.
C8_CounterBeforeExtension ==
    \A n \in 1..Len(att_log) :
        LET safe == sanitize_attachment_filename(attachments[att_log[n].att].filename)
            E == ExistingBefore(n)
            path == att_log[n].path
        IN  IF safe \notin E THEN path = safe
            ELSE \E i \in 0..Len(safe), k \in 1..n :
                    LET stem == SubSeq(safe, 1, i)
                        ext == SubSeq(safe, i + 1, Len(safe))
                        cand(m) == stem \o << "_" >> \o Str(m) \o ext
                    IN  /\ IsSplit(safe, stem, ext)
                        /\ path = cand(k)
                        /\ path \notin E
                        /\ \A m \in 1..(k - 1) : cand(m) \in E

\* the third a.p of a message has been written to a_2.p
C8_Witness ==
    /\ pc = "return"
    /\ \A k \in 1..3 : k <= Len(attachments) /\ attachments[k].filename = AP
    /\ Len(att_log) >= 3
    /\ att_log[2].path = A1P
    /\ att_log[3].path = << "a", "_", "2", ".", "p" >>
    /\ att_log[3].outcome = "written"

-----------------------------------------------------------------------------
(* Attachments persisted, headers *)

\* the parts of the current message with an attachment disposition and a filename
NamedAttachments ==
    {i \in 1..Len(Parts) :
        ContainsAttachment(Parts[i].disp) /\ Parts[i].filename # << >>}

\* the files in attachments/ that hold the k-th recorded attachment
FilesOf(k) == {n \in DOMAIN att_files : att_files[n].att = k}

\* what C9 says of the parts without a filename, and of the bookkeeping
UnnamedSkipped ==
    /\ Range(AttParts) = NamedAttachments
    /\ \A k, l \in 1..Len(attachments) : k < l => AttParts[k] < AttParts[l]
    /\ result.attachment_count = Cardinality(NamedAttachments)
    /\ \A n \in DOMAIN att_files : att_files[n].att \in 1..Len(attachments)

FixedOrder == << "From", "To", "Subject", "Date", "Cc", "Message-ID" >>

\* the lines of a text, each ended by a newline
RECURSIVE Lines(_, _)
Lines(text, line) ==
    IF text = << >> THEN (IF line = << >> THEN << >> ELSE << line >>)
    ELSE IF Head(text) = "\n" THEN << line >> \o Lines(Tail(text), << >>)
         ELSE Lines(Tail(text), Append(line, Head(text)))

\* the value of a recognised header of message m, "N/A" when absent
HeaderValue(m, k) == IF k \in DOMAIN m.hdr THEN m.hdr[k] ELSE NA

ExpectedLines(m) ==
    [i \in 1..6 |-> KeyChars(FixedOrder[i]) \o << ":", " " >> \o HeaderValue(m, FixedOrder[i])]

ExpectedHeaders(m) == [i \in 1..6 |-> << FixedOrder[i], HeaderValue(m, FixedOrder[i]) >>]

\* C10: headers.txt holds exactly six lines "Key: Value" in the order From,
\* To, Subject, Date, Cc, Message-ID, an absent header with the value N/A,
\* and the returned headers mapping has the same keys and values.
C10_HeadersSixLines ==
    /\ (pc = "walk" \/ Walked) =>
          /\ "headers.txt" \in DOMAIN files
          /\ Lines(files["headers.txt"], << >>) = ExpectedLines(message)
          /\ files["headers.txt"][Len(files["headers.txt"])] = "\n"
          /\ headers = ExpectedHeaders(message)
    /\ pc = "resolve" /\ info # None =>
          /\ info[1].headers = ExpectedHeaders(eml_files[idx - 1].msg)
          /\ Lines(files["headers.txt"], << >>) = ExpectedLines(eml_files[idx - 1].msg)

-----------------------------------------------------------------------------
(* Body files and the returned result *)

\* C11: when extract_single_email returns, body_plain.txt exists iff a plain
\* body was captured (a zero-length one included) and body_html.html exists iff
\* an HTML body was captured, so has_plain and has_html of the result are true
\* exactly when the corresponding file was written.
C11_BodyFileIffCaptured ==
    pc = "return" =>
        /\ "body_plain.txt" \in DOMAIN files <=> plain_body # None
        /\ "body_html.html" \in DOMAIN files <=> html_body # None
        /\ result.has_plain <=> "body_plain.txt" \in DOMAIN files
        /\ result.has_html <=> "body_html.html" \in DOMAIN files

\* the attachments of the current call whose file was written
WrittenAttachments == {k \in 1..Len(att_log) : att_log[k].outcome = "written"}

\* C12: attachment_count of the returned result is the number of attachment
\* files written during the call; an attachment whose write failed and was
\* skipped with a warning is not counted.
C12_CountsWrittenAttachments ==
    /\ pc = "return" => result.attachment_count = Cardinality(WrittenAttachments)
    /\ pc = "resolve" /\ info # None =>
          info[1].attachment_count = Cardinality(WrittenAttachments)

-----------------------------------------------------------------------------
(* Failures *)

\* the step handles an attachment and its open() or write() raises
AttachmentWriteFails ==
    /\ pc = "att"
    /\ Len(att_log') = Len(att_log) + 1
    /\ att_log'[Len(att_log')].outcome \in {"open_error", "write_error"}

\* C13: when open() or write() raises for one attachment (a None payload
\* included) the call goes on: the step neither ends the call nor counts a
\* failure, the loop moves to the next attachment or to the return, every
\* attachment has been handled when the call returns, and the returning call
\* is counted as successful by the batch loop.
C13_AttachmentFailureRecovered ==
    /\ [][AttachmentWriteFails =>
             /\ stats' = stats /\ idx' = idx /\ attachments' = attachments
             /\ IF att_i < Len(attachments)
                THEN pc' = "att" /\ att_i' = att_i + 1
                ELSE pc' = "return"]_vars
    /\ [][pc = "return" =>
             /\ pc' = "resolve"
             /\ info' = Some(result)
             /\ stats' = [stats EXCEPT !.successful = @ + 1]]_vars
    /\ [](pc = "return" /\ attachments # << >> => Len(att_log) = Len(attachments))

\* a message whose first attachment has a payload that decodes to None (its
\* write raised) and whose second attachment was written has returned and
\* been counted as successful
C13_Witness ==
    /\ pc = "resolve"
    /\ info # None
    /\ stats.successful = 1
    /\ Len(att_log) = 2
    /\ attachments[1].content = None
    /\ att_log[1].outcome = "write_error"
    /\ att_log[2].outcome = "written"
    /\ info[1].attachment_count = 2

\* C14: a decode error on one part during the traversal does not end the
\* extraction of the message: every step of the traversal leads to the next
\* part or to the materialisation of the artifacts, and counts no failure.
C14_DecodeErrorNotFatal ==
    [][pc = "walk" => (pc' \in {"walk", "save_plain"} /\ stats' = stats)]_vars

\* the i-th attempt of the run was made for the i-th file of the list: its
\* directory, when one was resolved, is named after that file
AttemptOf(i) ==
    runs[i].dir # << >> =>
        /\ Len(runs[i].dir) >= Len(Base(i))
        /\ SubSeq(runs[i].dir, 1, Len(Base(i))) = Base(i)

\* process_all has gone through its loop
LoopOver == pc \in {"done", "exit"} /\ input_folder_exists /\ eml_files # << >>

\* C15: in process_all no failure of a message ends the batch: the files are
\* attempted once each in list order, every attempt adds one to exactly one
\* of stats.successful and stats.failed, successful + failed is the number of
\* files attempted so far at every loop boundary, and at the end it is the
\* total and the summary has been printed.
C15_BatchNeverAborted ==
    /\ [](/\ stats.successful + stats.failed = idx - 1
          /\ pc = "resolve" =>
                /\ Len(runs) = idx - 1
                /\ idx <= Len(eml_files) + 1
                /\ stats.total = Len(eml_files)
                /\ \A i \in 1..Len(runs) : AttemptOf(i)
          /\ LoopOver =>
                /\ idx = Len(eml_files) + 1
                /\ Len(runs) = Len(eml_files)
                /\ stats.successful + stats.failed = stats.total
                /\ stats.total = Len(eml_files)
                /\ summary = Some(stats))
    /\ [][idx' # idx =>
             /\ idx' = idx + 1
             /\ \/ stats' = [stats EXCEPT !.successful = @ + 1]
                \/ stats' = [stats EXCEPT !.failed = @ + 1]]_vars
    /\ [][stats' # stats /\ pc # "begin" => idx' = idx + 1]_vars

\* a batch of three files has ended with its summary printed, the first file
\* having failed and the last one having been extracted
C15_Witness ==
    /\ pc = "done"
    /\ Len(eml_files) = 3
    /\ ~runs[1].created
    /\ runs[3].created /\ info # None
    /\ stats.failed >= 1 /\ stats.successful >= 1
    /\ summary = Some(stats)

\* C18: the steps that write headers.txt, body_plain.txt and body_html.html
\* fail independently: a failure to write one of these files does not end
\* the call, which goes on to the remaining artifacts, and no failure of the
\* message is counted for it.
C18_ArtifactWritesIndependent ==
    [][(pc = "headers" \/ pc = "save_plain" \/ pc = "save_html") =>
          (pc' \in {"walk", "save_plain", "save_html", "att_mkdir"} /\ stats' = stats)]_vars

-----------------------------------------------------------------------------
(* The command line *)

\* C16: the process exits with 1 on a usage error (no input folder argument)
\* and when the input folder does not exist, and with 0 when the batch
\* completes, whether or not files failed.
C16_ExitCodes ==
    pc = "exit" =>
        exit_code = Some(IF Len(argv) < 2 \/ ~input_folder_exists THEN 1 ELSE 0)

-----------------------------------------------------------------------------
(* The window (src/gui.py): the Start and Stop buttons, the worker threads   *)
(* running process_emails, and the periodic check_queue. The input folder   *)
(* (eml_files, input_folder_exists) and the output base (fs_dirs) are those *)
(* of the file system; the extraction of one message is one step. The       *)
(* queue holds the messages of the paths that leave process_emails; the     *)
(* messages put inside the loop only fill the log and the progress bar,     *)
(* which are not part of the state, and so are the counters successful and  *)
(* failed of a thread.                                                      *)

\* the state of the command line program, which does not run here
main_vars == << argv, exit_code, summary, pc, idx, stats, output_folder, runs,
                local_vars, dir_vars, info >>

\* the files of the largest input folder of the window: the first two have
\* the same sanitised name, the third the empty one
GuiFiles == << X \o DotEml, X \o << "." >> \o DotEml, DotEml, X1 \o DotEml,
              X \o << ".", "." >> \o DotEml >>

\* input folders of the window: the first n of these files, n up to MaxFiles
GuiBatches ==
    {[i \in 1..n |-> [name |-> GuiFiles[i], msg |-> TrivialMessage]] :
        n \in 0..(IF MaxFiles < Len(GuiFiles) THEN MaxFiles ELSE Len(GuiFiles))}

\* the command line program is not started
MainOff ==
    /\ argv = << >>
    /\ exit_code = None
    /\ summary = None
    /\ pc = "off"
    /\ idx = 1
    /\ stats = [total |-> 0, successful |-> 0, failed |-> 0]
    /\ output_folder = << >>
    /\ runs = << >>
    /\ headers = << >>
    /\ walk_i = 1
    /\ plain_body = None
    /\ html_body = None
    /\ body_src = [plain |-> 0, html |-> 0]
    /\ attachments = << >>
    /\ att_i = 1
    /\ files = << >>
    /\ att_dir = FALSE
    /\ att_files = << >>
    /\ att_log = << >>
    /\ info = None

GuiInit ==
    /\ eml_files \in GuiBatches
    /\ fs_dirs \in { {}, {X} }
    /\ input_folder_exists = TRUE
    /\ MainOff
    /\ GuiOff
    /\ PureOff

\* lines 239-243: a thread about to run process_emails. stop_requested and
\* late record, for the properties, that Stop was pressed during this run and
\* how many messages the thread began after that
Thread == [pc |-> "begin", idx |-> 1, folder |-> << >>,
           stop_requested |-> FALSE, late |-> 0]

\* the thread has not left process_emails
Alive(t) == t.pc # "end"

\* lines 251-258
reset_ui_state ==
    /\ is_processing' = FALSE
    /\ start_btn' = "normal"
    /\ stop_btn' = "disabled"

\* lines 207-243: Start is pressed. With a missing input folder an error box
\* is shown and nothing changes
start_extraction ==
    /\ start_btn = "normal"
    /\ Len(workers) < MaxStarts
    /\ IF ~input_folder_exists
       THEN UNCHANGED << is_processing, start_btn, stop_btn, workers >>
       ELSE /\ is_processing' = TRUE
            /\ start_btn' = "disabled"
            /\ stop_btn' = "normal"
            /\ workers' = Append(workers, Thread)
    /\ UNCHANGED << progress_queue, eml_files, fs_dirs, input_folder_exists >>
    /\ UNCHANGED << main_vars, pure_vars >>

\* lines 245-249: Stop is pressed
stop_extraction ==
    /\ stop_btn = "normal"
    /\ reset_ui_state
    /\ workers' = [w \in 1..Len(workers) |->
                      IF Alive(workers[w])
                      THEN [workers[w] EXCEPT !.stop_requested = TRUE]
                      ELSE workers[w]]
    /\ UNCHANGED << progress_queue, eml_files, fs_dirs, input_folder_exists >>
    /\ UNCHANGED << main_vars, pure_vars >>

\* lines 393-414: messages are taken until the queue is empty or a
\* "complete" has been taken; the result is what is left and whether a
\* "complete" was met
RECURSIVE get_until_complete(_)
get_until_complete(q) ==
    IF q = << >> THEN [left |-> << >>, complete |-> FALSE]
    ELSE IF Head(q) = "complete" THEN [left |-> Tail(q), complete |-> TRUE]
    ELSE get_until_complete(Tail(q))

\* lines 390-420: the periodic consumer of the queue
check_queue ==
    /\ progress_queue # << >>
    /\ LET got == get_until_complete(progress_queue)
       IN  /\ progress_queue' = got.left
           /\ IF got.complete THEN reset_ui_state
              ELSE UNCHANGED << is_processing, start_btn, stop_btn >>
    /\ UNCHANGED << workers, eml_files, fs_dirs, input_folder_exists >>
    /\ UNCHANGED << main_vars, pure_vars >>

\* the input folder is deleted while the window is open
remove_input_folder ==
    /\ input_folder_exists
    /\ input_folder_exists' = FALSE
    /\ UNCHANGED << eml_files, fs_dirs, gui_vars, main_vars, pure_vars >>

\* a step of thread w changes that thread only
Becomes(w, t) == workers' = [workers EXCEPT ![w] = t]

\* lines 262-300: up to the loop. A missing folder or no .eml file: an
\* "error" is put and the thread returns; an exception (mkdir of the output
\* base) is caught at line 386: "error" and "complete" are put
process_emails_begin(w) ==
    /\ workers[w].pc = "begin"
    /\ \/ /\ ~input_folder_exists \/ eml_files = << >>
          /\ progress_queue' = Append(progress_queue, "error")
          /\ Becomes(w, [workers[w] EXCEPT !.pc = "end"])
       \/ /\ input_folder_exists /\ eml_files # << >>
          /\ progress_queue' = progress_queue
          /\ Becomes(w, [workers[w] EXCEPT !.pc = "loop"])
       \/ /\ input_folder_exists /\ eml_files # << >>
          /\ progress_queue' = progress_queue \o << "error", "complete" >>
          /\ Becomes(w, [workers[w] EXCEPT !.pc = "end"])
    /\ UNCHANGED << is_processing, start_btn, stop_btn >>
    /\ UNCHANGED << eml_files, fs_dirs, input_folder_exists, main_vars, pure_vars >>

\* lines 302-304: the head of the loop: the list is over, or the flag is
\* down (break), or the next message begins
process_emails_loop(w) ==
    /\ workers[w].pc = "loop"
    /\ IF workers[w].idx > Len(eml_files) \/ ~is_processing
       THEN Becomes(w, [workers[w] EXCEPT !.pc = "summary"])
       ELSE Becomes(w, [workers[w] EXCEPT
                           !.pc = "resolve",
                           !.late = IF workers[w].stop_requested THEN @ + 1 ELSE @])
    /\ UNCHANGED << is_processing, start_btn, stop_btn, progress_queue >>
    /\ UNCHANGED << eml_files, fs_dirs, input_folder_exists, main_vars, pure_vars >>

\* lines 359-369: the end of an iteration
Iterated(t) == [t EXCEPT !.pc = "loop", !.idx = @ + 1]

\* lines 313-322: the output folder of the message is resolved
process_emails_resolve(w) ==
    /\ workers[w].pc = "resolve"
    /\ Becomes(w, [workers[w] EXCEPT
                      !.pc = "extract",
                      !.folder = resolve_folder(eml_files[workers[w].idx].name, fs_dirs)])
    /\ UNCHANGED << is_processing, start_btn, stop_btn, progress_queue >>
    /\ UNCHANGED << eml_files, fs_dirs, input_folder_exists, main_vars, pure_vars >>

\* lines 325-369: extract_single_email returns, or raises before or after it
\* created the directory
process_emails_extract(w) ==
    /\ workers[w].pc = "extract"
    /\ LET t == workers[w]
           dir == {t.folder} \ {<< >>}
       IN  \/ /\ fs_dirs' = fs_dirs \cup dir
              /\ Becomes(w, Iterated(t))
           \/ /\ fs_dirs' = fs_dirs
              /\ Becomes(w, Iterated(t))
    /\ UNCHANGED << is_processing, start_btn, stop_btn, progress_queue >>
    /\ UNCHANGED << eml_files, input_folder_exists, main_vars, pure_vars >>

\* lines 371-384: the final summary and the "complete" message
process_emails_summary(w) ==
    /\ workers[w].pc = "summary"
    /\ progress_queue' = Append(progress_queue, "complete")
    /\ Becomes(w, [workers[w] EXCEPT !.pc = "end"])
    /\ UNCHANGED << is_processing, start_btn, stop_btn >>
    /\ UNCHANGED << eml_files, fs_dirs, input_folder_exists, main_vars, pure_vars >>

\* the steps of process_emails, taken by any of the threads
Begins == \E w \in 1..Len(workers) : process_emails_begin(w)
Loops == \E w \in 1..Len(workers) : process_emails_loop(w)
Resolves == \E w \in 1..Len(workers) : process_emails_resolve(w)
Extracts == \E w \in 1..Len(workers) : process_emails_extract(w)
Summarises == \E w \in 1..Len(workers) : process_emails_summary(w)

GuiNext ==
    \/ start_extraction
    \/ stop_extraction
    \/ check_queue
    \/ remove_input_folder
    \/ Begins \/ Loops \/ Resolves \/ Extracts \/ Summarises

GuiSpec == GuiInit /\ [][GuiNext]_vars

\* C17: once Stop is pressed during a run, the thread of that run begins no
\* further message, whatever is pressed afterwards (Start included); and the
\* directories of the output base stay (nothing is deleted or rolled back).
C17_StopBeginsNoFurtherMessage ==
    /\ [](\A w \in 1..Len(workers) : workers[w].late = 0)
    /\ [][fs_dirs \subseteq fs_dirs']_vars

-----------------------------------------------------------------------------
(* The two sanitisers as functions of an arbitrary string: PureSpec draws a *)
(* string, calls one of them on it, and calls it again on the result.       *)

\* the characters either sanitiser replaces, a letter, and the two it trims
PureAlphabet == {"<", ">", ":", "\"", "/", "\\", "|", "?", "*", "a", ".", " "}

\* endings of a file name: none, the suffix in two spellings, the suffix twice
Suffixes == { << >>, DotEml, << ".", "E", "m", "L" >>, DotEml \o DotEml }

\* every string of up to MaxLen characters, alone and before each ending
\* (the empty string stands for None as well: both are falsy)
PureInputs == {stem \o suf : stem \in SeqsUpTo(PureAlphabet, MaxLen), suf \in Suffixes}

PureInit ==
    /\ given \in PureInputs
    /\ sanitized = None
    /\ eml_files = << >>
    /\ fs_dirs = {}
    /\ input_folder_exists = FALSE
    /\ MainOff
    /\ GuiOff

\* the result of a first call; twice is None until the second call
Called(fn, once) == Some([fn |-> fn, once |-> once, twice |-> None])

\* lines 23-30
call_sanitize_folder_name ==
    /\ sanitized = None
    /\ sanitized' = Called("sanitize_folder_name", sanitize_folder_name(given))
    /\ UNCHANGED << given, eml_files, fs_dirs, input_folder_exists, main_vars, gui_vars >>

\* lines 32-56
call_sanitize_attachment_filename ==
    /\ sanitized = None
    /\ sanitized' = Called("sanitize_attachment_filename",
                           sanitize_attachment_filename(given))
    /\ UNCHANGED << given, eml_files, fs_dirs, input_folder_exists, main_vars, gui_vars >>

\* the same function is called on its result
call_again ==
    /\ sanitized # None
    /\ sanitized[1].twice = None
    /\ LET r == sanitized[1]
       IN  sanitized' =
               Some([r EXCEPT !.twice =
                       Some(IF r.fn = "sanitize_folder_name"
                            THEN sanitize_folder_name(r.once)
                            ELSE sanitize_attachment_filename(r.once))])
    /\ UNCHANGED << given, eml_files, fs_dirs, input_folder_exists, main_vars, gui_vars >>

PureNext ==
    \/ call_sanitize_folder_name
    \/ call_sanitize_attachment_filename
    \/ call_again

PureSpec == PureInit /\ [][PureNext]_vars

\* s is a name safe to use as one path component: none of the characters in
\* bad, no space or dot at either end
SafeName(s, bad) ==
    /\ \A i \in 1..Len(s) : s[i] \notin bad
    /\ s # << >> => s[1] \notin {" ", "."} /\ s[Len(s)] \notin {" ", "."}

NineChars == {"\\", "/", ":", "*", "?", "\"", "<", ">", "|"}

\* the sanitiser fn has been called on the given string and has returned
Returned(fn) == sanitized # None /\ sanitized[1].fn = fn

\* C19: for every string, the empty one included, sanitize_attachment_filename
\* returns a non-empty name with none of \ / : * ? " < > |, without a space
\* or a dot at either end, never "." or ".."; it returns "unnamed_attachment"
\* when the string is empty or nothing but dots and spaces (all that
\* replacement and trimming can reduce to nothing); and applied to its own
\* result it returns that result.
C19_AttachmentNameSafe ==
    Returned("sanitize_attachment_filename") =>
        LET r == sanitized[1].once
        IN  /\ r # << >>
            /\ SafeName(r, NineChars)
            /\ r \notin {<< "." >>, << ".", "." >>}
            /\ (\A i \in 1..Len(given) : given[i] \in {".", " "}) => r = UNNAMED
            /\ sanitized[1].twice # None => sanitized[1].twice[1] = r

\* "../" has been sanitised to "_", and sanitised again with the same result
C19_Witness ==
    /\ Returned("sanitize_attachment_filename")
    /\ given = << ".", ".", "/" >>
    /\ sanitized[1].once = << "_" >>
    /\ sanitized[1].twice = Some(<< "_" >>)

\* the file name without one trailing ".eml" in any case, the name itself
\* when it does not end so
WithoutSuffix(f) ==
    IF /\ Len(f) >= 4
       /\ f[Len(f) - 3] = "."
       /\ f[Len(f) - 2] \in {"e", "E"}
       /\ f[Len(f) - 1] \in {"m", "M"}
       /\ f[Len(f)] \in {"l", "L"}
    THEN SubSeq(f, 1, Len(f) - 4)
    ELSE f

\* each of the nine characters replaced by '_'
Substituted(s) == [i \in 1..Len(s) |-> IF s[i] \in NineChars THEN "_" ELSE s[i]]

\* r is s without the spaces and dots at its two ends
IsTrimOf(r, s) ==
    \E i \in 1..(Len(s) + 1), j \in 0..Len(s) :
        /\ i <= j + 1
        /\ r = SubSeq(s, i, j)
        /\ \A k \in 1..(i - 1) : s[k] \in {" ", "."}
        /\ \A k \in (j + 1)..Len(s) : s[k] \in {" ", "."}
        /\ r # << >> => r[1] \notin {" ", "."} /\ r[Len(r)] \notin {" ", "."}

\* C20: sanitize_folder_name removes exactly one trailing ".eml", matched
\* without regard to case (a name without it is used as it is), then replaces
\* each of < > : " / \ | ? * by '_', then trims the spaces and dots at both
\* ends; the result holds none of the nine characters and neither starts nor
\* ends with a space or a dot.
C20_FolderNameSafe ==
    Returned("sanitize_folder_name") =>
        LET r == sanitized[1].once
        IN  /\ IsTrimOf(r, Substituted(WithoutSuffix(given)))
            /\ SafeName(r, NineChars)

\* " :." followed by ".EmL" has been sanitised to "_": the suffix was
\* removed, the colon replaced, the space and the dot trimmed
C20_Witness ==
    /\ Returned("sanitize_folder_name")
    /\ given = << " ", ":", ".", ".", "E", "m", "L" >>
    /\ sanitized[1].once = << "_" >>

-----------------------------------------------------------------------------
(* The output directory of a message and the output base *)

\* the folder, relative to the output base, names a strict child of the base:
\* not the base itself (the empty name, "."), not its parent, nothing deeper
\* or outside
BelowBase(folder) ==
    /\ folder \notin {<< >>, << "." >>, << ".", "." >>}
    /\ "/" \notin Range(folder)
    /\ "\\" \notin Range(folder)

\* extract_single_email is running on the current message
Extracting ==
    pc \in {"load", "mkdir", "headers", "walk", "save_plain", "save_html",
            "att_mkdir", "att", "return"}

\* C21: whatever the source file is called (a name that sanitises to the empty
\* string included), the directory a message is extracted into, by the batch
\* loop of main.py and by the loop of a worker of the window, is a strict
\* child of the output base and never the base itself: headers.txt and the
\* body files are never written directly into the output base.
C21_ExtractedBelowBase ==
    /\ Extracting => BelowBase(output_folder)
    /\ \A k \in CreatedRuns : BelowBase(runs[k].dir)
    /\ \A w \in 1..Len(workers) :
          workers[w].pc = "extract" => BelowBase(workers[w].folder)

\* the headers of a source file named ".eml" have been written, into the
\* directory "_1" of the output base
C21_Witness ==
    /\ pc = "save_plain"
    /\ eml_files[idx].name = DotEml
    /\ Base(idx) = << >>
    /\ output_folder = << "_", "1" >>
    /\ runs[Len(runs)].created
    /\ "headers.txt" \in DOMAIN files

-----------------------------------------------------------------------------
(* The threads of the window and the end of a run *)

\* the thread is in the body of the loop of lines 302-369
InLoopBody(t) == t.pc \in {"resolve", "extract"}

\* the threads between the exists() of lines 319-322 and the mkdir of
\* extract_single_email, with the folder they have chosen
Choosing == {w \in 1..Len(workers) : workers[w].pc = "extract"}

\* C22: at any time at most one thread is inside the message loop of
\* process_emails, whatever the order of Start, Stop and the steps of the
\* threads, so no two threads are between the existence check and the creation
\* of an output directory at once (and none has chosen the directory of
\* another).
C22_OneWorkerInLoop ==
    /\ Cardinality({w \in 1..Len(workers) : InLoopBody(workers[w])}) <= 1
    /\ \A v, w \in Choosing : v # w => workers[v].folder # workers[w].folder

\* thread w leaves process_emails in this step
Leaves(w) == workers[w].pc # "end" /\ workers'[w].pc = "end"

\* every thread has left process_emails and the queue has been emptied by
\* check_queue
Quiescent ==
    /\ workers # << >>
    /\ \A w \in 1..Len(workers) : ~Alive(workers[w])
    /\ progress_queue = << >>

\* C23: a thread leaves process_emails, on whatever path, only with a
\* "complete" put on the queue; and so, once every thread has left and
\* check_queue has emptied the queue, the window is reset (is_processing
\* false, Start enabled, Stop disabled) without Stop being pressed.
C23_EveryExitPutsComplete ==
    /\ [][\A w \in 1..Len(workers) :
             Leaves(w) =>
                /\ progress_queue' # << >>
                /\ progress_queue'[Len(progress_queue')] = "complete"]_vars
    /\ [](Quiescent =>
             /\ ~is_processing
             /\ start_btn = "normal"
             /\ stop_btn = "disabled")

====
